---------------------------- MODULE Spec2Model ----------------------------
(***************************************************************************)
(* Flight-force model of andoco/flight-sim-bevy-rust.                      *)
(*                                                                         *)
(* Fixed-point units (the code computes in f32):                           *)
(*   angle        decidegree (0.1 deg)        coefficient  1/1000          *)
(*   direction    1/1000 (unit vectors)       area         0.01 m^2        *)
(*   velocity     m/s                         position     cm              *)
(*   force        dN (0.1 N)                  torque       dN*cm           *)
(*   time step    1/50 s                      stick value  1/10            *)
(***************************************************************************)
EXTENDS Integers, Sequences, FiniteSets, TLC

(***************************************************************************)
(* Arithmetic helpers                                                      *)
(***************************************************************************)
Abs(a) == IF a < 0 THEN -a ELSE a

Sign(a) == IF a < 0 THEN -1 ELSE IF a > 0 THEN 1 ELSE 0

\* division rounding to nearest (f32 arithmetic rounds to nearest)
RoundDiv(a, b) == Sign(a) * Sign(b) * ((2 * Abs(a) + Abs(b)) \div (2 * Abs(b)))

\* f32::clamp(min, max); the caller checks min <= max (std panics otherwise)
Clamp(v, lo, hi) == IF v < lo THEN lo ELSE IF v > hi THEN hi ELSE v

\* std's assertion inside f32::clamp
ClampPanics(lo, hi) == lo > hi

RECURSIVE SqrtSearch(_, _, _)
SqrtSearch(n, lo, hi) ==
    IF lo >= hi THEN lo
    ELSE LET mid == (lo + hi + 1) \div 2
         IN  IF mid * mid <= n THEN SqrtSearch(n, mid, hi)
             ELSE SqrtSearch(n, lo, mid - 1)

\* floor of the square root, n < 2^31
Sqrt(n) == SqrtSearch(n, 0, 46340)

(***************************************************************************)
(* Vectors (glam Vec3) as triples                                          *)
(***************************************************************************)
ZERO == <<0, 0, 0>>

VAdd(a, b) == <<a[1] + b[1], a[2] + b[2], a[3] + b[3]>>

VSub(a, b) == <<a[1] - b[1], a[2] - b[2], a[3] - b[3]>>

VNeg(a) == <<-a[1], -a[2], -a[3]>>

\* vector * scalar / divisor
VScale(a, s, d) == <<RoundDiv(a[1] * s, d), RoundDiv(a[2] * s, d), RoundDiv(a[3] * s, d)>>

Dot(a, b) == a[1] * b[1] + a[2] * b[2] + a[3] * b[3]

Cross(a, b) == <<a[2] * b[3] - a[3] * b[2],
                 a[3] * b[1] - a[1] * b[3],
                 a[1] * b[2] - a[2] * b[1]>>

\* 100 * |v| for a velocity in m/s
Length100(v) == Sqrt(Dot(v, v) * 10000)

\* Vec3::normalize_or_zero, result in 1/1000
NormalizeOrZero(v) ==
    IF v = ZERO THEN ZERO
    ELSE <<RoundDiv(v[1] * 100000, Length100(v)),
           RoundDiv(v[2] * 100000, Length100(v)),
           RoundDiv(v[3] * 100000, Length100(v))>>

(***************************************************************************)
(* Trigonometry in fixed point (Bhaskara's approximation of the sine)      *)
(***************************************************************************)
\* sine of x decidegrees, 0 <= x <= 1800, in 1/1000
SinHalfTurn(x) ==
    LET p == x * (1800 - x)
    IN  (400 * p) \div ((4050000 - p) \div 10)

SinMilli(a) ==
    LET x == a % 3600
    IN  IF x <= 1800 THEN SinHalfTurn(x) ELSE -SinHalfTurn(x - 1800)

CosMilli(a) == SinMilli(a + 900)

RECURSIVE AcosSearch(_, _, _)
AcosSearch(c, lo, hi) ==
    IF lo >= hi THEN lo
    ELSE LET mid == (lo + hi) \div 2
         IN  IF CosMilli(mid) <= c THEN AcosSearch(c, lo, mid)
             ELSE AcosSearch(c, mid + 1, hi)

\* arc cosine of c/1000 in decidegrees, in [0, 1800]
AcosDD(c) == AcosSearch(Clamp(c, -1000, 1000), 0, 1800)


(***************************************************************************)
(* Coefficient curves: sequences of <<coefficient, angle>> control points, *)
(* in the order the code writes them (lift first, angle second)            *)
(***************************************************************************)
\* PlaneSpec::default wings; setup_plane's wing curve has the same points
DefaultWingLift ==
    <<<<0, -900>>, <<0, -50>>, <<350, 0>>, <<1400, 100>>, <<800, 150>>, <<0, 900>>>>

DefaultVerticalLift ==
    <<<<0, -900>>, <<-100, -100>>, <<0, -25>>, <<0, 0>>, <<0, 25>>, <<100, 100>>, <<0, 900>>>>

DefaultHorizontalLift ==
    <<<<0, -900>>, <<-150, -100>>, <<0, 0>>, <<150, 100>>, <<0, 900>>>>

WingSpecDefaultLift == <<<<0, -900>>, <<-150, -100>>, <<150, 100>>, <<0, 900>>>>

WingSpecDefaultDrag == <<<<32, -900>>, <<32, 900>>>>

\* setup_plane's tail_wing_lift_coefficient_curve
TailWingLift == <<<<-250, -900>>, <<-250, -100>>, <<0, 0>>, <<250, 100>>, <<250, 900>>>>

\* a curve of three control points whose ascending angles stop at 45 degrees
EditedLift == <<<<100, -900>>, <<500, 0>>, <<200, 450>>>>

Curves ==
    {DefaultWingLift, DefaultVerticalLift, DefaultHorizontalLift, WingSpecDefaultLift,
     WingSpecDefaultDrag, TailWingLift, EditedLift}

\* the number of samples every table is built with
NumSamples == 180

Elements(curve) == [i \in 1..Len(curve) |-> curve[i][1]]

Knots(curve) == [i \in 1..Len(curve) |-> curve[i][2]]

\* the segment of the knots that holds the position num/den
Segment(knots, num, den) ==
    LET below == {j \in 1..(Len(knots) - 1) : knots[j] * den <= num}
    IN  IF below = {} THEN 1 ELSE CHOOSE j \in below : \A k \in below : k <= j

\* enterpolation's Linear evaluated at the position num/den (decidegrees)
LinearGen(elements, knots, num, den) ==
    LET j == Segment(knots, num, den)
    IN  elements[j]
          + RoundDiv((elements[j + 1] - elements[j]) * (num - knots[j] * den),
                     (knots[j + 1] - knots[j]) * den)

\* Curve::take(n): n equidistant positions from the first knot to the last, both included
Take(elements, knots, n) ==
    LET first == knots[1]
        last  == knots[Len(knots)]
    IN  [i \in 1..n |->
            LinearGen(elements, knots, first * (n - 1) + (i - 1) * (last - first), n - 1)]

\* build_samples taking one sample per degree of the curve's own domain instead of
\* 180: the fault TableHas180Samples detects
build_samples_per_degree(curve) ==
    Take(Elements(curve), Knots(curve),
         (Knots(curve)[Len(curve)] - Knots(curve)[1]) \div 10)

\* WingSpec::build_samples, for a curve the Linear builder accepts
build_samples(curve) == Take(Elements(curve), Knots(curve), NumSamples)

\* the piecewise-linear interpolant of a curve at an angle in decidegrees
Interpolant(curve, dd) == LinearGen(Elements(curve), Knots(curve), dd, 1)

(***************************************************************************)
(* Coefficient lookup of update_airfoil_forces.  An angle of attack is a   *)
(* record [nan, dd]: f32 NaN, or a value in decidegrees.                   *)
(***************************************************************************)
NaN == [nan |-> TRUE, dd |-> 0]

Angle(dd) == [nan |-> FALSE, dd |-> dd]

\* the index wrapped around the table instead of left out of range: the fault
\* LookupAtBoundaries detects
LiftCoefficientIndexWrapped(angle_of_attack) ==
    IF angle_of_attack.nan THEN 0
    ELSE ((angle_of_attack.dd + 900) \div 10) % 180

\* (angle_of_attack.to_degrees() + 90.0) as usize: the cast truncates toward zero,
\* saturates below zero at 0 and turns NaN into 0
LiftCoefficientIndex(angle_of_attack) ==
    IF angle_of_attack.nan THEN 0
    ELSE IF angle_of_attack.dd + 900 < 0 THEN 0
    ELSE (angle_of_attack.dd + 900) \div 10

\* samples.get(index).unwrap_or(&0.0)
LiftCoefficient(samples, angle_of_attack) ==
    LET index == LiftCoefficientIndex(angle_of_attack)
    IN  IF index < Len(samples) THEN samples[index + 1] ELSE 0


(***************************************************************************)
(* State                                                                   *)
(***************************************************************************)
VARIABLES
    kind,              \* which builder made the aircraft: "limits" (setup_plane,
                       \* it carries PlaneLimits) or "spec" (build_plane, PlaneSpec)
    plane_limits,      \* PlaneLimits of a "limits" aircraft
    plane_spec,        \* PlaneSpec of a "spec" aircraft
    airfoils,          \* the child Airfoil entities, in spawn order
    control,           \* PlaneControl: ailerons, elevators, rudder
    thrust,            \* Thrust
    airspeed,          \* Airspeed
    external_force,    \* ExternalForce: force, torque
    flight,            \* PlaneFlight: angle_of_attack, lift, weight, drag
    rotation,          \* per airfoil: Transform.rotation about x
    global_rotation,   \* per airfoil: the rotation its GlobalTransform holds
    follow,            \* camera::Follow
    pose,              \* the aircraft's GlobalTransform axes, from the rigid body
    linvel,            \* Velocity.linvel, from the rigid body
    dt,                \* Time::delta_seconds
    key, kphase,       \* the keyboard / button action in progress and its phase
    axis, aphase, avalue,  \* the gamepad axis in progress, its phase, its value
    held,              \* a second gamepad axis kept pressed meanwhile, and its value
    block_pos,         \* BlockPos of the aircraft
    block_changed,     \* BlockPos has changed since generate_infinite_buildings ran
    block_positions,   \* generate_infinite_buildings: its Local set of block positions
    block_entities,    \* generate_infinite_buildings: its Local map, position -> entity
    buildings,         \* the building entities alive in the world, each with its block
    spawned,           \* how many building entities have been spawned so far
    cameras,           \* the MainCamera children of the aircraft: the follow kind each
                       \* was placed for, in spawn order
    follow_added,      \* Follow was added since attach_to_follow ran (Added<Follow>)
    ran,               \* the systems of the Update schedule that have run this tick
    inTick,            \* an Update schedule is in progress
    tick,              \* ticks completed
    panicked,          \* a system panicked: the app is gone
    lift_coefficient_curve,    \* table construction: the curve handed to build_samples
    lift_coefficient_samples,  \* table construction: the samples built
    angle_of_attack,           \* table lookup: the angle queried
    lift_coefficient,          \* table lookup: the coefficient found
    pcTable,                   \* table construction and lookup: position
    local_center_of_mass,      \* ReadMassProperties.local_center_of_mass, from the
                               \* rigid body, in cm
    translation,               \* the aircraft's Transform.translation, in cm
    other_airfoils,            \* the Airfoil entities of another aircraft in the world
    plane_spec_model,          \* PlaneSpecModel: the text fields of the build window
    build_plane_event          \* the BuildPlaneEvent sent, if any

planeVars == <<kind, plane_limits, plane_spec, airfoils, control, thrust, airspeed,
               external_force, flight, rotation, global_rotation, follow>>

envVars == <<pose, linvel, dt, key, kphase, axis, aphase, avalue, held>>

schedVars == <<ran, inTick, tick, panicked>>

tableVars == <<lift_coefficient_curve, lift_coefficient_samples, angle_of_attack,
               lift_coefficient, pcTable>>

sceneVars == <<block_pos, block_changed, block_positions, block_entities, buildings,
               spawned, cameras, follow_added>>

worldVars == <<local_center_of_mass, translation, other_airfoils, plane_spec_model,
               build_plane_event, sceneVars>>

vars == <<planeVars, envVars, schedVars, tableVars, worldVars>>

(***************************************************************************)
(* Bounds of the model                                                     *)
(***************************************************************************)
\* ticks explored
MaxTicks == 2

\* which input devices have an action in progress in one tick: <<keyboard or
\* buttons, gamepad sticks>>; never both
ActiveInputs == {<<FALSE, FALSE>>, <<TRUE, FALSE>>, <<FALSE, TRUE>>}

\* tick durations, in 1/50 s
TickDurations == {1, 2}

\* stick deflections offered, in 1/10 (all beyond the 0.2 threshold)
StickValues == {-10, 6}

\* angles queried from a table, in decidegrees
QueryAngles ==
    {Angle(a) : a \in {-1800, -1200, -901, -900, -896, -6, 0, 6, 100, 450, 899, 900,
                       1200, 1800, 2000}} \cup {NaN}

(***************************************************************************)
(* Aircraft construction                                                   *)
(***************************************************************************)
\* decidegrees in one radian
DDPerRadian == 573

WingSpec(size, lift, max_control_angle) ==
    [size |-> size, lift_coefficient_curve |-> lift,
     drag_coefficient_curve |-> WingSpecDefaultDrag,
     max_control_angle |-> max_control_angle]

\* PlaneSpec::default with the thrust limit and the control limits of the build
\* window's text fields (PlaneSpecModel::to_spec parses any number)
PlaneSpecOf(thrust_limit, wings_max, horizontal_max, vertical_max) ==
    [thrust |-> thrust_limit,
     fuselage |-> [size |-> <<112, 200, 530>>],
     wings |-> WingSpec(<<550, 20, 150>>, DefaultWingLift, wings_max),
     tail |-> [size |-> <<25, 25, 300>>,
               vertical |-> WingSpec(<<10, 200, 50>>, DefaultVerticalLift, vertical_max),
               horizontal |-> WingSpec(<<200, 20, 100>>, DefaultHorizontalLift,
                                       horizontal_max)]]

\* the specs the build window produces here: thrust limits of 1 N, 0 and -1 N with
\* the default control limits (2.5, 5, 5 degrees), the same negated, and all zero
PlaneSpecs ==
    {PlaneSpecOf(10, 25, 50, 50), PlaneSpecOf(-10, 25, 50, 50),
     PlaneSpecOf(10, -25, -50, -50), PlaneSpecOf(0, 0, 0, 0)}

\* the PlaneLimits of setup_plane
SetupLimits ==
    [thrust |-> 1500, fuselage |-> <<112, 200, 830>>, wings |-> <<1100, 150>>,
     wing_offset_z |-> 0]

NoComponent == [absent |-> TRUE]

\* the four airfoils setup_plane spawns
SetupAirfoils ==
    LET limits == SetupLimits
        tail_height == limits.fuselage[2]
        tail_length == limits.fuselage[2]
    IN  << [position |-> "Wings",
            area |-> (limits.wings[1] * limits.wings[2]) \div 100,
            lift_coefficient_samples |-> build_samples(DefaultWingLift),
            translation |-> <<0, 0, limits.wing_offset_z>>],
           [position |-> "VerticalTail",
            area |-> (tail_height * tail_length) \div 100,
            lift_coefficient_samples |-> [i \in 1..NumSamples |-> 0],
            translation |-> <<0, limits.fuselage[2] \div 2 + tail_height \div 2,
                              limits.fuselage[3] \div 2 - tail_length \div 2>>],
           [position |-> "HorizontalTailLeft",
            area |-> (100 * 70) \div 100,
            lift_coefficient_samples |-> build_samples(TailWingLift),
            translation |-> <<-(limits.fuselage[1] \div 2 + 50), 0,
                              limits.fuselage[3] \div 2 - 35>>],
           [position |-> "HorizontalTailRight",
            area |-> (100 * 70) \div 100,
            lift_coefficient_samples |-> build_samples(TailWingLift),
            translation |-> <<limits.fuselage[1] \div 2 + 50, 0,
                              limits.fuselage[3] \div 2 - 35>>] >>

\* build_wing: the airfoil of one surface (its control-surface child is not modelled)
build_wing(pos, spec, offset, position, orientation) ==
    [position |-> position,
     orientation |-> orientation,
     area |-> (spec.size[1] * spec.size[3]) \div 100,
     lift_coefficient_samples |-> build_samples(spec.lift_coefficient_curve),
     drag_coefficient_samples |-> build_samples(spec.drag_coefficient_curve),
     translation |-> VAdd(pos, <<(spec.size[1] \div 2) * offset, 0, 0>>)]

\* the airfoils build_plane spawns: build_wings, then build_tail
BuildAirfoils(plane) ==
    LET end_pos == <<0, 0, plane.fuselage.size[3] \div 2 + plane.tail.size[3]>>
    IN  << build_wing(<<0, 0, 100>>, plane.wings, -1, "WingLeft", "Horizontal"),
           build_wing(<<0, 0, 100>>, plane.wings, 1, "WingRight", "Horizontal"),
           build_wing(VAdd(end_pos, <<0, plane.tail.vertical.size[2] \div 2, 0>>),
                      plane.tail.vertical, 0, "VerticalTail", "Vertical"),
           build_wing(end_pos, plane.tail.horizontal, -1, "TailWingLeft", "Horizontal"),
           build_wing(end_pos, plane.tail.horizontal, 1, "TailWingRight", "Horizontal") >>

\* the rigid body's local centre of mass (ReadMassProperties): the colliders are
\* centred on the aircraft origin
\* GlobalTransform axes, in 1/1000
Level == [forward |-> <<0, 0, -1000>>, up |-> <<0, 1000, 0>>, right |-> <<1000, 0, 0>>]

NoseUp == [forward |-> <<0, 1000, 0>>, up |-> <<0, 0, 1000>>, right |-> <<1000, 0, 0>>]

\* the poses and velocities the rigid body hands over: at rest level, at rest
\* nose up, and a sinking glide
Flights == {<<Level, ZERO>>, <<NoseUp, ZERO>>, <<Level, <<0, -20, -20>>>>}

\* the components setup_plane (kind "limits") or build_plane (kind "spec") inserts
InitPlane(k, spec) ==
    /\ kind = k
    /\ plane_limits = IF k = "limits" THEN SetupLimits ELSE NoComponent
    /\ plane_spec = IF k = "spec" THEN spec ELSE NoComponent
    /\ airfoils = IF k = "limits" THEN SetupAirfoils ELSE BuildAirfoils(spec)
    /\ control = [ailerons |-> 0, elevators |-> 0, rudder |-> 0]
    /\ thrust = 0
    /\ airspeed = 0
    /\ external_force = [force |-> ZERO, torque |-> ZERO]
    /\ flight = [angle_of_attack |-> 0, lift |-> 0, weight |-> 0, drag |-> 0]
    /\ rotation = [i \in DOMAIN airfoils |-> 0]
    /\ global_rotation = [i \in DOMAIN airfoils |-> 0]
    /\ follow = "Behind"

InitEnv ==
    /\ pose = Level
    /\ linvel = ZERO
    /\ dt = 1
    /\ key = "none"
    /\ kphase = "released"
    /\ axis = "none"
    /\ aphase = "released"
    /\ avalue = 0
    /\ held = [axis |-> "none", value |-> 0]

InitSched ==
    /\ ran = {}
    /\ inTick = FALSE
    /\ tick = 0
    /\ panicked = FALSE

InitTableIdle ==
    /\ lift_coefficient_curve = <<>>
    /\ lift_coefficient_samples = <<>>
    /\ angle_of_attack = NaN
    /\ lift_coefficient = 0
    /\ pcTable = "idle"

\* the translation setup_plane and build_plane spawn the aircraft at:
\* (SPACING * 0.5, 1.1, 0) and (SPACING * 0.5, fuselage.size.y * 0.5 + 0.6, 0)
SpawnPoint(k, spec) ==
    IF k = "limits" THEN <<10000, 110, 0>>
    ELSE <<10000, spec.fuselage.size[2] \div 2 + 60, 0>>

\* the aircraft as setup_plane and build_plane leave it: BlockPos(0, 0) and Follow
\* just inserted, no building generated and no camera attached yet
InitScene ==
    /\ block_pos = <<0, 0>>
    /\ block_changed = TRUE
    /\ block_positions = {}
    /\ block_entities = <<>>
    /\ buildings = {}
    /\ spawned = 0
    /\ cameras = <<>>
    /\ follow_added = TRUE

\* one aircraft in the world at its spawn point, mass properties not yet read back
\* from the rigid body, the build window untouched
InitWorldIdle ==
    /\ InitScene
    /\ local_center_of_mass = ZERO
    /\ translation = SpawnPoint(kind, plane_spec)
    /\ other_airfoils = <<>>
    /\ plane_spec_model = NoComponent
    /\ build_plane_event = <<>>

Init ==
    /\ \/ InitPlane("limits", NoComponent)
       \/ \E spec \in PlaneSpecs : InitPlane("spec", spec)
    /\ InitEnv
    /\ InitSched
    /\ InitTableIdle
    /\ InitWorldIdle


(***************************************************************************)
(* Input state (leafwing ActionState)                                      *)
(***************************************************************************)
\* the keyboard and button actions of the input map
KeyActions ==
    {"RollLeft", "RollRight", "YawLeft", "YawRight", "PitchUp", "PitchDown",
     "ThrustUp", "ThrustDown", "FollowBehind", "FollowAbove", "FollowSide",
     "FollowInside"}

\* the gamepad stick actions of the input map
AxisActions == {"Pitch", "Roll", "Throttle", "Rudder"}

pressed(action) ==
    \/ key = action /\ kphase \in {"just_pressed", "pressed"}
    \/ axis = action /\ aphase \in {"just_pressed", "pressed"}
    \/ held.axis = action

just_pressed(action) ==
    \/ key = action /\ kphase = "just_pressed"
    \/ axis = action /\ aphase = "just_pressed"

just_released(action) ==
    \/ key = action /\ kphase = "just_released"
    \/ axis = action /\ aphase = "just_released"

\* ActionState::clamped_value of a stick action, in 1/10
clamped_value(action) ==
    IF axis = action THEN Clamp(avalue, -10, 10)
    ELSE IF held.axis = action THEN Clamp(held.value, -10, 10) ELSE 0

\* what a device's action and phase can be in the next tick
NextPhases(action, phase, actions) ==
    IF phase \in {"just_pressed", "pressed"}
    THEN {<<action, "pressed">>, <<action, "just_released">>}
    ELSE {<<"none", "released">>} \cup {<<a, "just_pressed">> : a \in actions}

(***************************************************************************)
(* Kinematics                                                              *)
(***************************************************************************)
\* the forward axis of an airfoil: the aircraft's axes turned about x by the
\* airfoil's rotation
AirfoilForward(p, rot) ==
    VAdd(VScale(p.forward, CosMilli(rot), 1000), VScale(p.up, SinMilli(rot), 1000))

AirfoilUp(p, rot) ==
    VSub(VScale(p.up, CosMilli(rot), 1000), VScale(p.forward, SinMilli(rot), 1000))

\* a point of the aircraft's frame (x right, y up, z backward) in world axes
Rotate(p, local) ==
    VAdd(VAdd(VScale(p.right, local[1], 1000), VScale(p.up, local[2], 1000)),
         VScale(p.forward, -local[3], 1000))

\* Vec3::Y.angle_between(direction) for a unit direction in 1/1000
AngleBetweenYUnit(direction) == AcosDD(direction[2])

\* Vec3::Y.angle_between(velocity.normalize()): NaN for the zero vector
AngleBetweenYVelocity(velocity) ==
    IF velocity = ZERO THEN NaN
    ELSE Angle(AcosDD(RoundDiv(velocity[2] * 100000, Length100(velocity))))

angle_of_attack_signed(forward, velocity) ==
    LET a1 == AngleBetweenYUnit(forward)
        a2 == AngleBetweenYVelocity(velocity)
    IN  IF a2.nan THEN NaN ELSE Angle(a2.dd - a1)

(***************************************************************************)
(* Force composition                                                       *)
(***************************************************************************)
\* dynamic pressure with the airspeed floored at 1 m/s: the fault
\* ZeroVelocityThrustAlone detects
DynamicPressureFloored(speed) ==
    RoundDiv(6125 * (IF speed < 1 THEN 1 ELSE speed) * (IF speed < 1 THEN 1 ELSE speed),
             1000)

\* 0.5 * air_density * airspeed * airspeed with air_density 1.225, in 0.1 Pa
DynamicPressure(speed) == RoundDiv(6125 * speed * speed, 1000)

\* coefficient * dynamic_pressure * area, in dN
AeroForce(coefficient, dynamic_pressure, area) ==
    RoundDiv(RoundDiv(coefficient * dynamic_pressure, 100) * area, 1000)

\* a torque taken about the world origin instead of the centre of mass: the fault
\* ContributionAtPoint detects
at_point_about_origin(force, point, center_of_mass) ==
    [force |-> force, torque |-> Cross(point, force)]

\* ExternalForce::at_point
at_point(force, point, center_of_mass) ==
    [force |-> force, torque |-> Cross(VSub(point, center_of_mass), force)]

\* ExternalForce's AddAssign
add_assign(a, b) ==
    [force |-> VAdd(a.force, b.force), torque |-> VAdd(a.torque, b.torque)]

\* one pass of update_airfoil_forces' inner loop: the airfoil's lift, its drag, and
\* what they add to the external force acc
AirfoilStep(acc, airfoil, rot) ==
    LET dynamic_pressure == DynamicPressure(airspeed)
        aoa  == angle_of_attack_signed(AirfoilForward(pose, rot), linvel)
        lift == AeroForce(LiftCoefficient(airfoil.lift_coefficient_samples, aoa),
                          dynamic_pressure, airfoil.area)
        centre_of_mass == VAdd(translation, Rotate(pose, local_center_of_mass))
        \* airfoil_global_tx.translation()
        global == VAdd(translation, Rotate(pose, airfoil.translation))
        point == VAdd(global, VScale(pose.forward, plane_limits.wing_offset_z, 1000))
        \* drag_coefficient 0.032
        drag == AeroForce(32, dynamic_pressure, airfoil.area)
    IN  CASE airfoil.position = "Wings" ->
               LET lifted == add_assign(acc.ef,
                                 at_point(VScale(AirfoilUp(pose, rot), lift, 1000),
                                          point, centre_of_mass))
               IN  [ef |-> [lifted EXCEPT
                              !.force = VAdd(@, VScale(VNeg(NormalizeOrZero(linvel)),
                                                       drag, 1000))],
                    lift |-> lift, drag |-> drag]
          [] airfoil.position \in {"HorizontalTailLeft", "HorizontalTailRight"} ->
               [acc EXCEPT
                  !.ef = add_assign(@,
                            at_point(VScale(AirfoilUp(pose, rot), lift, 100000),
                                     global, centre_of_mass))]
          [] OTHER -> acc

RECURSIVE AirfoilLoop(_, _)
AirfoilLoop(acc, i) ==
    IF i > Len(airfoils) THEN acc
    ELSE AirfoilLoop(AirfoilStep(acc, airfoils[i], global_rotation[i]), i + 1)

\* the same loop body over the Airfoil entities that are not this aircraft's
\* children: airfoil_query holds every Airfoil of the world
RECURSIVE OtherAirfoilLoop(_, _)
OtherAirfoilLoop(acc, i) ==
    IF i > Len(other_airfoils) THEN acc
    ELSE OtherAirfoilLoop(AirfoilStep(acc, other_airfoils[i], other_airfoils[i].rotation),
                          i + 1)

\* update_airfoil_forces' loop over every airfoil, starting from the external force ef
AirfoilForces(ef) ==
    OtherAirfoilLoop(
        AirfoilLoop([ef |-> ef, lift |-> flight.lift, drag |-> flight.drag], 1), 1)

\* global_tx.forward() * thrust
ThrustForce == VScale(pose.forward, thrust, 1000)


(***************************************************************************)
(* The Update schedule                                                     *)
(***************************************************************************)
\* PlanePlugin::build: six systems, chained
PlaneChain ==
    <<"plane_handle_keyboard_input", "plane_handle_gamepad_input",
      "update_airfoils_rotations", "update_airspeed", "update_thrust_forces",
      "update_airfoil_forces">>

\* InputPlugin::build: two systems, no ordering between them or against any other
InputSystems == {"input_handle_keyboard_input", "input_handle_gamepad_input"}

Systems == {PlaneChain[i] : i \in DOMAIN PlaneChain} \cup InputSystems

\* the systems the schedule runs before system s
Before(s) ==
    {PlaneChain[i] : i \in {j \in DOMAIN PlaneChain :
                              \E k \in DOMAIN PlaneChain : PlaneChain[k] = s /\ j < k}}

Ready(s) == inTick /\ ~panicked /\ s \notin ran /\ Before(s) \subseteq ran

Ran(s) == ran' = ran \cup {s} /\ UNCHANGED <<inTick, tick>>

\* query.get_single_mut() finds the aircraft: it is the only one in the world
Single == other_airfoils = <<>>

\* a clear that misses the rudder, leaving it where one press of YawRight put it:
\* the fault ReleaseResetsControls detects
clear_but_rudder == [ailerons |-> 0, elevators |-> 0, rudder |-> 10]

\* PlaneControl::clear
clear == [ailerons |-> 0, elevators |-> 0, rudder |-> 0]

\* the engine starts a tick: the rigid body has written pose and velocity, the input
\* manager has updated the action state, the clock has advanced
TickBegin ==
    /\ ~inTick /\ ~panicked /\ tick < MaxTicks
    /\ \E f \in Flights : pose' = f[1] /\ linvel' = f[2]
    /\ dt' \in TickDurations
    /\ \E k \in NextPhases(key, kphase, KeyActions),
          a \in NextPhases(axis, aphase, AxisActions) :
          /\ <<k[1] # "none", a[1] # "none">> \in ActiveInputs
          /\ key' = k[1] /\ kphase' = k[2]
          /\ axis' = a[1] /\ aphase' = a[2]
          /\ avalue' \in IF a[2] = "just_pressed" THEN StickValues
                         ELSE IF a[2] = "pressed" THEN {avalue} ELSE {0}
    /\ inTick' = TRUE
    /\ UNCHANGED <<held, planeVars, tableVars, worldVars, ran, tick, panicked>>

\* plane.rs handle_keyboard_input; its query matches an aircraft with PlaneLimits
plane_handle_keyboard_input ==
    /\ Ready("plane_handle_keyboard_input")
    /\ Ran("plane_handle_keyboard_input")
    /\ IF kind # "limits" \/ ~Single
       THEN UNCHANGED <<control, thrust, external_force, panicked>>
       ELSE LET released == \E a \in {"PitchUp", "PitchDown", "RollLeft", "RollRight",
                                      "YawLeft", "YawRight"} : just_released(a)
                ef1 == IF released THEN [external_force EXCEPT !.torque = ZERO]
                       ELSE external_force
                c1  == IF released THEN clear ELSE control
                ef2 == IF just_released("ThrustUp") \/ just_released("ThrustDown")
                       THEN [ef1 EXCEPT !.force = ZERO] ELSE ef1
                ef3 == IF pressed("RollLeft")
                       THEN [ef2 EXCEPT !.torque = VScale(pose.forward, -100, 1)] ELSE ef2
                ef4 == IF pressed("RollRight")
                       THEN [ef3 EXCEPT !.torque = VScale(pose.forward, 100, 1)] ELSE ef3
                ef5 == IF pressed("YawLeft")
                       THEN [ef4 EXCEPT !.torque = VScale(pose.up, 10, 1)] ELSE ef4
                ef6 == IF pressed("YawRight")
                       THEN [ef5 EXCEPT !.torque = VScale(pose.up, -10, 1)] ELSE ef5
                c2  == IF pressed("PitchUp") THEN [c1 EXCEPT !.elevators = 100] ELSE c1
                c3  == IF pressed("PitchDown") THEN [c2 EXCEPT !.elevators = -100] ELSE c2
                t1  == IF pressed("ThrustUp") THEN thrust + 2 * dt ELSE thrust
                t2  == IF pressed("ThrustDown") THEN t1 - 2 * dt ELSE t1
            IN  IF ClampPanics(0, plane_limits.thrust)
                THEN panicked' = TRUE /\ UNCHANGED <<control, thrust, external_force>>
                ELSE /\ external_force' = ef6
                     /\ control' = [c3 EXCEPT !.elevators = Clamp(@, -450, 450)]
                     /\ thrust' = Clamp(t2, 0, plane_limits.thrust)
                     /\ UNCHANGED panicked
    /\ UNCHANGED <<kind, plane_limits, plane_spec, airfoils, airspeed, flight, rotation,
                   global_rotation, follow, envVars, tableVars, worldVars>>

\* plane.rs handle_gamepad_input; its query matches an aircraft with PlaneLimits
plane_handle_gamepad_input ==
    /\ Ready("plane_handle_gamepad_input")
    /\ Ran("plane_handle_gamepad_input")
    /\ IF kind # "limits" \/ ~Single
       THEN UNCHANGED <<control, thrust, external_force, follow, panicked>>
       ELSE LET released == \E a \in {"Pitch", "Roll", "Rudder"} : just_released(a)
                ef1 == IF released THEN [external_force EXCEPT !.torque = ZERO]
                       ELSE external_force
                c1  == IF pressed("Pitch")
                       THEN [control EXCEPT !.elevators = clamped_value("Pitch") * DDPerRadian]
                       ELSE control
                ef2 == IF pressed("Roll")
                       THEN [ef1 EXCEPT !.torque =
                               VAdd(@, VScale(pose.forward,
                                              40 * clamped_value("Roll") * dt, 1000))]
                       ELSE ef1
                throttle == pressed("Throttle")
                t1  == IF throttle THEN thrust + RoundDiv(clamped_value("Throttle") * dt, 5)
                       ELSE thrust
                ef3 == IF pressed("Rudder")
                       THEN [ef2 EXCEPT !.torque =
                               VAdd(@, VScale(pose.up,
                                              -20 * clamped_value("Rudder") * dt, 1000))]
                       ELSE ef2
                f1  == IF just_pressed("FollowAbove") THEN "Above" ELSE follow
                f2  == IF just_pressed("FollowBehind") THEN "Behind" ELSE f1
                f3  == IF just_pressed("FollowInside") THEN "Inside" ELSE f2
            IN  IF throttle /\ ClampPanics(0, plane_limits.thrust)
                THEN panicked' = TRUE /\ UNCHANGED <<control, thrust, external_force, follow>>
                ELSE /\ external_force' = ef3
                     /\ control' = c1
                     /\ thrust' = IF throttle THEN Clamp(t1, 0, plane_limits.thrust) ELSE t1
                     /\ follow' = f3
                     /\ UNCHANGED panicked
    /\ UNCHANGED <<kind, plane_limits, plane_spec, airfoils, airspeed, flight, rotation,
                   global_rotation, envVars, tableVars, worldVars>>

\* a step down without the clamp: the fault KeyboardStepsOnPress detects
dec_unclamped(current, max_angle) == current - RoundDiv(max_angle, 5)

\* input.rs inc_clamped / dec_clamped: one step of a fifth of the limit
inc_clamped(current, max_angle) ==
    Clamp(current + RoundDiv(max_angle, 5), -max_angle, max_angle)

dec_clamped(current, max_angle) ==
    Clamp(current - RoundDiv(max_angle, 5), -max_angle, max_angle)

\* the clamp of thrust without its upper bound: the fault ThrustWithinLimit detects
ClampThrustFloor(value, spec) == IF value < 0 THEN 0 ELSE value

\* input.rs: the clamp of thrust to the spec's limit
ClampThrust(value, spec) == Clamp(value, 0, spec.thrust)

\* input.rs handle_keyboard_input: the control angles it leaves, from c
KeyboardControl(c, spec) ==
    LET wings == spec.wings.max_control_angle
        vertical == spec.tail.vertical.max_control_angle
        horizontal == spec.tail.horizontal.max_control_angle
        c1 == IF just_pressed("RollLeft")
              THEN [c EXCEPT !.ailerons = dec_clamped(@, wings)] ELSE c
        c2 == IF just_pressed("RollRight")
              THEN [c1 EXCEPT !.ailerons = inc_clamped(@, wings)] ELSE c1
        c3 == IF just_pressed("YawLeft")
              THEN [c2 EXCEPT !.rudder = dec_clamped(@, vertical)] ELSE c2
        c4 == IF just_pressed("YawRight")
              THEN [c3 EXCEPT !.rudder = inc_clamped(@, vertical)] ELSE c3
        c5 == IF just_pressed("PitchUp")
              THEN [c4 EXCEPT !.elevators = inc_clamped(@, horizontal)] ELSE c4
    IN  IF just_pressed("PitchDown")
        THEN [c5 EXCEPT !.elevators = dec_clamped(@, horizontal)] ELSE c5

\* input.rs handle_keyboard_input: the thrust it leaves, from t
KeyboardThrust(t, spec) ==
    LET t1 == IF pressed("ThrustUp") THEN t + 10 * dt ELSE t
        t2 == IF pressed("ThrustDown") THEN t1 - 10 * dt ELSE t1
    IN  ClampThrust(t2, spec)

\* input.rs handle_keyboard_input; its query matches an aircraft with PlaneSpec
input_handle_keyboard_input ==
    /\ Ready("input_handle_keyboard_input")
    /\ IF kind # "spec" \/ ~Single
       THEN Ran("input_handle_keyboard_input")
            /\ UNCHANGED <<control, thrust, panicked>>
       ELSE LET spec == plane_spec
                wings == spec.wings.max_control_angle
                vertical == spec.tail.vertical.max_control_angle
                horizontal == spec.tail.horizontal.max_control_angle
                panics ==
                    \/ (just_pressed("RollLeft") \/ just_pressed("RollRight"))
                          /\ ClampPanics(-wings, wings)
                    \/ (just_pressed("YawLeft") \/ just_pressed("YawRight"))
                          /\ ClampPanics(-vertical, vertical)
                    \/ (just_pressed("PitchUp") \/ just_pressed("PitchDown"))
                          /\ ClampPanics(-horizontal, horizontal)
                    \/ ClampPanics(0, spec.thrust)
            IN  IF panics
                THEN panicked' = TRUE /\ UNCHANGED <<control, thrust, ran, inTick, tick>>
                ELSE /\ Ran("input_handle_keyboard_input")
                     /\ control' = KeyboardControl(control, spec)
                     /\ thrust' = KeyboardThrust(thrust, spec)
                     /\ UNCHANGED panicked
    /\ UNCHANGED <<kind, plane_limits, plane_spec, airfoils, airspeed, external_force,
                   flight, rotation, global_rotation, follow, envVars, tableVars, worldVars>>

\* input.rs scaled_value, times the control limit: the stick beyond the threshold of
\* 0.2, rescaled to [-1, 1]
scaled_value(v, max_angle) == RoundDiv(Sign(v) * (Abs(v) - 2) * max_angle, 8)

\* input.rs handle_gamepad_input: the control angles it leaves, from c
GamepadControl(c, spec) ==
    LET c0 == IF \E a \in {"Pitch", "Roll", "Rudder"} : just_released(a)
              THEN clear ELSE c
        c1 == IF pressed("Pitch")
              THEN [c0 EXCEPT !.elevators =
                      scaled_value(clamped_value("Pitch"),
                                   spec.tail.horizontal.max_control_angle)]
              ELSE c0
        c2 == IF pressed("Roll")
              THEN [c1 EXCEPT !.ailerons =
                      scaled_value(clamped_value("Roll"), spec.wings.max_control_angle)]
              ELSE c1
    IN  IF pressed("Rudder")
        THEN [c2 EXCEPT !.rudder =
                scaled_value(clamped_value("Rudder"), spec.tail.vertical.max_control_angle)]
        ELSE c2

\* input.rs handle_gamepad_input: the thrust it leaves, from t
GamepadThrust(t, spec) ==
    IF pressed("Throttle")
    THEN ClampThrust(t + clamped_value("Throttle") * dt, spec)
    ELSE t

\* input.rs handle_gamepad_input; its query matches an aircraft with PlaneSpec
input_handle_gamepad_input ==
    /\ Ready("input_handle_gamepad_input")
    /\ IF kind # "spec" \/ ~Single
       THEN Ran("input_handle_gamepad_input")
            /\ UNCHANGED <<control, thrust, follow, panicked>>
       ELSE LET spec == plane_spec
                f1 == IF just_pressed("FollowAbove") THEN "Above" ELSE follow
                f2 == IF just_pressed("FollowBehind") THEN "Behind" ELSE f1
                f3 == IF just_pressed("FollowSide") THEN "Side" ELSE f2
                f4 == IF just_pressed("FollowInside") THEN "Inside" ELSE f3
            IN  IF pressed("Throttle") /\ ClampPanics(0, spec.thrust)
                THEN panicked' = TRUE
                     /\ UNCHANGED <<control, thrust, follow, ran, inTick, tick>>
                ELSE /\ Ran("input_handle_gamepad_input")
                     /\ control' = GamepadControl(control, spec)
                     /\ thrust' = GamepadThrust(thrust, spec)
                     /\ follow' = f4
                     /\ UNCHANGED panicked
    /\ UNCHANGED <<kind, plane_limits, plane_spec, airfoils, airspeed, external_force,
                   flight, rotation, global_rotation, envVars, tableVars, worldVars>>

\* the rotation update_airfoils_rotations gives airfoil i
TailRotation(i) ==
    IF airfoils[i].position \in {"HorizontalTailLeft", "HorizontalTailRight"}
    THEN control.elevators ELSE rotation[i]

update_airfoils_rotations ==
    /\ Ready("update_airfoils_rotations")
    /\ Ran("update_airfoils_rotations")
    /\ rotation' = [i \in DOMAIN airfoils |-> TailRotation(i)]
    /\ UNCHANGED <<kind, plane_limits, plane_spec, airfoils, control, thrust, airspeed,
                   external_force, flight, global_rotation, follow, envVars, panicked,
                   tableVars, worldVars>>

\* update_airspeed: (translation + linvel) - translation, negated z
Airspeed == -linvel[3]

update_airspeed ==
    /\ Ready("update_airspeed")
    /\ Ran("update_airspeed")
    /\ airspeed' = Airspeed
    /\ UNCHANGED <<kind, plane_limits, plane_spec, airfoils, control, thrust,
                   external_force, flight, rotation, global_rotation, follow, envVars,
                   panicked, tableVars, worldVars>>

\* the external force update_thrust_forces leaves
ThrustUpdate(ef) == [ef EXCEPT !.force = ThrustForce]

update_thrust_forces ==
    /\ Ready("update_thrust_forces")
    /\ Ran("update_thrust_forces")
    /\ external_force' = ThrustUpdate(external_force)
    /\ UNCHANGED <<kind, plane_limits, plane_spec, airfoils, control, thrust, airspeed,
                   flight, rotation, global_rotation, follow, envVars, panicked,
                   tableVars, worldVars>>

\* update_airfoil_forces; its query matches an aircraft with PlaneLimits
update_airfoil_forces ==
    /\ Ready("update_airfoil_forces")
    /\ Ran("update_airfoil_forces")
    /\ IF kind # "limits"
       THEN UNCHANGED <<external_force, flight>>
       ELSE LET out == AirfoilForces(external_force)
            IN  /\ external_force' = out.ef
                /\ flight' = [flight EXCEPT !.lift = out.lift, !.drag = out.drag]
    /\ UNCHANGED <<kind, plane_limits, plane_spec, airfoils, control, thrust, airspeed,
                   rotation, global_rotation, follow, envVars, panicked, tableVars, worldVars>>

\* the engine ends the tick: every system of the schedule has run, and transform
\* propagation copies each airfoil's rotation into its GlobalTransform
TickEnd ==
    /\ inTick /\ ~panicked /\ ran = Systems
    /\ global_rotation' = rotation
    /\ ran' = {}
    /\ inTick' = FALSE
    /\ tick' = tick + 1
    /\ UNCHANGED <<kind, plane_limits, plane_spec, airfoils, control, thrust, airspeed,
                   external_force, flight, rotation, follow, envVars, panicked, tableVars, worldVars>>

Next ==
    \/ TickBegin
    \/ plane_handle_keyboard_input
    \/ plane_handle_gamepad_input
    \/ input_handle_keyboard_input
    \/ input_handle_gamepad_input
    \/ update_airfoils_rotations
    \/ update_airspeed
    \/ update_thrust_forces
    \/ update_airfoil_forces
    \/ TickEnd

Spec == Init /\ [][Next]_vars

(***************************************************************************)
(* The world around the aircraft: its block, the buildings generated       *)
(* around it, the follow camera                                            *)
(***************************************************************************)
\* world.rs SPACING: the side of a block, in m
SPACING == 200

\* world.rs ACTIVE_BLOCK_DISTANCE: buildings stand this many blocks around
ACTIVE_BLOCK_DISTANCE == 20

\* places the rigid body takes the aircraft to, in cm: the spawn point in block
\* (0, 0), 250 m east in block (1, 0), 150 m west and 450 m south in block (0, 2)
WorldPositions == {<<10000, 160, 0>>, <<25000, 160, 0>>, <<-15000, 160, 45000>>}

\* update_block_positions: position.x as i32 / SPACING, both truncating toward zero
BlockOf(position) ==
    LET block(cm) == Sign(cm) * ((Abs(cm) \div 100) \div SPACING)
    IN  <<block(position[1]), block(position[3])>>

\* whether rand.perlin.get([x * 0.2, z * 0.2]) is positive: the noise is a fixed
\* field that is zero at its lattice points, every fifth block each way; here it is
\* positive on every other lattice cell
perlin_positive(x, z) ==
    /\ ~(x % 5 = 0 /\ z % 5 = 0)
    /\ ((x \div 5) + (z \div 5)) % 2 = 0

\* a window that takes in the blocks at px + 20 and pz + 20 as well: the fault
\* BuildingsMatchWindow detects
ActiveBlocksClosed(px, pz) ==
    {b \in ((px - ACTIVE_BLOCK_DISTANCE)..(px + ACTIVE_BLOCK_DISTANCE))
              \X ((pz - ACTIVE_BLOCK_DISTANCE)..(pz + ACTIVE_BLOCK_DISTANCE)) :
        perlin_positive(b[1], b[2])}

\* generate_infinite_buildings: active_block_positions once both loops are through
ActiveBlocks(px, pz) ==
    {b \in ((px - ACTIVE_BLOCK_DISTANCE)..(px + ACTIVE_BLOCK_DISTANCE - 1))
              \X ((pz - ACTIVE_BLOCK_DISTANCE)..(pz + ACTIVE_BLOCK_DISTANCE - 1)) :
        perlin_positive(b[1], b[2])}

\* the id of the entity generate_infinite_buildings spawns for block b around
\* (px, pz) when count ids are in use: the next unused ones, by b's place in the
\* two loops
building_entity(b, px, pz, count) ==
    count + (b[2] - (pz - ACTIVE_BLOCK_DISTANCE)) * 2 * ACTIVE_BLOCK_DISTANCE
          + (b[1] - (px - ACTIVE_BLOCK_DISTANCE)) + 1

\* the scene of an aircraft that has been in the air in block (0, 0): the camera
\* attached behind it, the buildings of its window generated
FlownScene ==
    /\ block_pos = <<0, 0>>
    /\ block_changed = FALSE
    /\ block_positions = ActiveBlocks(0, 0)
    /\ block_entities = [b \in ActiveBlocks(0, 0) |-> building_entity(b, 0, 0, 0)]
    /\ buildings = {[entity |-> building_entity(b, 0, 0, 0), block |-> b] :
                       b \in ActiveBlocks(0, 0)}
    /\ spawned = 4 * ACTIVE_BLOCK_DISTANCE * ACTIVE_BLOCK_DISTANCE
    /\ cameras = <<<<0, 500, 2000>>>>
    /\ follow_added = FALSE

(***************************************************************************)
(* One tick of an aircraft in flight: the schedule from a tick that has    *)
(* just begun, over a wider choice of pose, velocity, mass properties and  *)
(* company than the engine hands over in Spec                              *)
(***************************************************************************)
\* yawed 90 degrees to the left: the nose along world -x
Yawed == [forward |-> <<-1000, 0, 0>>, up |-> <<0, 1000, 0>>, right |-> <<0, 0, -1000>>]

FlightPoses == {Level, NoseUp, Yawed}

\* velocities in m/s: at rest, along world -z, a sinking glide, along world -x
FlightVelocities == {ZERO, <<0, 0, -20>>, <<0, -20, -20>>, <<-20, 0, 0>>}

\* where the aircraft is: at the spawn point of setup_plane, and 50 m up after a
\* flight back towards the origin
FlightPositions == {SpawnPoint("limits", NoComponent), <<3000, 5000, -2000>>}

\* a spec of the build window: the default with a thrust limit of 500 N and a vertical
\* tail of 1 m x 4 m x 1 m
TallTailSpec ==
    [PlaneSpecOf(5000, 25, 50, 50) EXCEPT !.tail.vertical.size = <<100, 400, 100>>]

\* the local centre of mass of the aircraft build_plane spawns for TallTailSpec, in
\* cm: the fuselage (mass 100) and the tail boom (mass 10) lie on the nose axis, the
\* vertical tail and its control surface (volume 5 at y = 2 m) above it, the three
\* wheels (volume 0.1 at y = -0.5 m) below it
BuiltCentreOfMass == <<0, 8, 67>>

\* the airfoils of a second aircraft of the same build flying 5 m to the right, in
\* the same attitude, with neutral controls
OtherAirfoils ==
    [i \in DOMAIN SetupAirfoils |->
        [position |-> SetupAirfoils[i].position,
         area |-> SetupAirfoils[i].area,
         lift_coefficient_samples |-> SetupAirfoils[i].lift_coefficient_samples,
         translation |-> VAdd(SetupAirfoils[i].translation, <<500, 0, 0>>),
         rotation |-> 0]]

\* the aircraft of setup_plane at the start of a tick, after ticks at rest with the
\* throttle and the elevator keys used; its colliders are centred on its origin
InitFlightLimits ==
    /\ kind = "limits"
    /\ plane_limits = SetupLimits
    /\ plane_spec = NoComponent
    /\ airfoils = SetupAirfoils
    /\ \E e \in {0, 100} :
          /\ control = [ailerons |-> 0, elevators |-> e, rudder |-> 0]
          /\ rotation = [i \in DOMAIN SetupAirfoils |->
                            IF SetupAirfoils[i].position
                                  \in {"HorizontalTailLeft", "HorizontalTailRight"}
                            THEN e ELSE 0]
          /\ global_rotation = rotation
    /\ thrust \in {0, 100}
    /\ local_center_of_mass = ZERO
    /\ translation \in FlightPositions
    /\ other_airfoils \in {<<>>, OtherAirfoils}

\* the aircraft build_plane spawns for TallTailSpec at the start of a tick, controls
\* neutral
InitFlightSpec ==
    /\ kind = "spec"
    /\ plane_limits = NoComponent
    /\ plane_spec = TallTailSpec
    /\ airfoils = BuildAirfoils(TallTailSpec)
    /\ control = clear
    /\ rotation = [i \in DOMAIN airfoils |-> 0]
    /\ global_rotation = rotation
    /\ thrust \in {0, 1000}
    /\ local_center_of_mass = BuiltCentreOfMass
    /\ translation = SpawnPoint("spec", TallTailSpec)
    /\ other_airfoils = <<>>

InitFlight ==
    /\ InitFlightLimits \/ InitFlightSpec
    /\ airspeed = 0
    /\ external_force = [force |-> ZERO, torque |-> ZERO]
    /\ flight = [angle_of_attack |-> 0, lift |-> 0, weight |-> 0, drag |-> 0]
    /\ follow = "Behind"
    /\ FlownScene
    /\ pose \in FlightPoses
    /\ linvel \in FlightVelocities
    /\ dt = 1
    /\ \/ key = "none" /\ kphase = "released"
       \/ key = "ThrustUp" /\ kphase = "pressed"
    /\ axis = "none" /\ aphase = "released" /\ avalue = 0
    /\ held = [axis |-> "none", value |-> 0]
    /\ ran = {} /\ inTick = TRUE /\ tick = 0 /\ panicked = FALSE
    /\ InitTableIdle
    /\ plane_spec_model = NoComponent
    /\ build_plane_event = <<>>

NextFlight ==
    \/ plane_handle_keyboard_input
    \/ plane_handle_gamepad_input
    \/ input_handle_keyboard_input
    \/ input_handle_gamepad_input
    \/ update_airfoils_rotations
    \/ update_airspeed
    \/ update_thrust_forces
    \/ update_airfoil_forces
    \/ TickEnd

SpecFlight == InitFlight /\ [][NextFlight]_vars

(***************************************************************************)
(* The build window: text fields, the Build button, the rebuild            *)
(***************************************************************************)
\* a text field holding a number, and one holding text that is no number
Num(n) == [valid |-> TRUE, value |-> n]

NotANumber == [valid |-> FALSE, value |-> 0]

\* f32::to_string
to_string(n) == Num(n)

\* str::parse::<f32>().unwrap_or_default()
parse_or_default(text) == IF text.valid THEN text.value ELSE 0

\* WingModel::new's curve fields: each point as a pair of texts
CurveModel(curve) ==
    [i \in 1..Len(curve) |-> <<to_string(curve[i][1]), to_string(curve[i][2])>>]

\* PlaneSpecModel::new, for the fields the build window edits here: thrust, the
\* wings' lift curve and the wings' max control angle
PlaneSpecModel(spec) ==
    [thrust |-> to_string(spec.thrust),
     wings |-> [lift_coefficient_curve |-> CurveModel(spec.wings.lift_coefficient_curve),
                max_control_angle |-> to_string(spec.wings.max_control_angle)]]

\* WingModel::to_spec's curve: every text parsed, a text that is no number read as 0
CurveToSpec(model) ==
    [i \in 1..Len(model) |->
        <<parse_or_default(model[i][1]), parse_or_default(model[i][2])>>]

\* PlaneSpecModel::to_spec
to_spec(model) ==
    [PlaneSpecOf(parse_or_default(model.thrust),
                 parse_or_default(model.wings.max_control_angle), 50, 50)
        EXCEPT !.wings.lift_coefficient_curve =
                   CurveToSpec(model.wings.lift_coefficient_curve)]

\* Linear::builder()...build() returns an error, which build_samples unwraps: fewer
\* than two elements, or knots that are not sorted
LinearBuildFails(curve) ==
    \/ Len(curve) < 2
    \/ \E i \in 1..(Len(curve) - 1) : curve[i][2] > curve[i + 1][2]

\* the curves build_wing builds tables from, in the order build_plane visits them
CurvesOf(spec) ==
    <<spec.wings.lift_coefficient_curve, spec.wings.drag_coefficient_curve,
      spec.tail.vertical.lift_coefficient_curve, spec.tail.vertical.drag_coefficient_curve,
      spec.tail.horizontal.lift_coefficient_curve,
      spec.tail.horizontal.drag_coefficient_curve>>

\* texts typed into the thrust field and the max control angle field
ThrustTexts == {Num(10), Num(-10), NotANumber}

ControlAngleTexts == {Num(25), NotANumber}

\* the wings' lift curve as typed into its six rows (the editor neither adds nor
\* removes rows): the default, an angle out of order, angles that stop at 45
\* degrees, a coefficient that is no number, an angle that is no number
CurveTexts ==
    {CurveModel(DefaultWingLift),
     [CurveModel(DefaultWingLift) EXCEPT ![2] = <<Num(0), Num(50)>>],
     [CurveModel(DefaultWingLift) EXCEPT ![6] = <<Num(0), Num(450)>>],
     [CurveModel(DefaultWingLift) EXCEPT ![4] = <<NotANumber, Num(100)>>],
     [CurveModel(DefaultWingLift) EXCEPT ![6] = <<Num(0), NotANumber>>]}

\* the aircraft built from the default spec has been flown: ailerons and elevators
\* deflected, the throttle open, gliding; its build window is open
InitBuild ==
    /\ kind = "spec"
    /\ plane_limits = NoComponent
    /\ plane_spec = PlaneSpecOf(10, 25, 50, 50)
    /\ airfoils = BuildAirfoils(plane_spec)
    /\ control = [ailerons |-> 5, elevators |-> -10, rudder |-> 0]
    /\ thrust = 10
    /\ airspeed = 20
    /\ external_force = [force |-> <<0, 0, -10>>, torque |-> ZERO]
    /\ flight = [angle_of_attack |-> 0, lift |-> 0, weight |-> 0, drag |-> 0]
    /\ rotation = [i \in DOMAIN airfoils |-> 0]
    /\ global_rotation = rotation
    /\ follow = "Above"
    /\ pose = Level
    /\ linvel = <<0, -20, -20>>
    /\ dt = 1
    /\ key = "none" /\ kphase = "released"
    /\ axis = "none" /\ aphase = "released" /\ avalue = 0
    /\ held = [axis |-> "none", value |-> 0]
    /\ InitSched
    /\ InitTableIdle
    /\ local_center_of_mass = ZERO
    /\ translation = SpawnPoint(kind, plane_spec)
    /\ other_airfoils = <<>>
    /\ plane_spec_model = PlaneSpecModel(plane_spec)
    /\ build_plane_event = <<>>
    /\ FlownScene

\* the user types into a field of the build window, once the last build request
\* has been served
EditField ==
    /\ ~panicked
    /\ build_plane_event = <<>> /\ airfoils # <<>>
    /\ \/ \E text \in ThrustTexts : plane_spec_model' = [plane_spec_model EXCEPT !.thrust = text]
       \/ \E text \in ControlAngleTexts :
             plane_spec_model' = [plane_spec_model EXCEPT !.wings.max_control_angle = text]
       \/ \E curve \in CurveTexts :
             plane_spec_model' = [plane_spec_model EXCEPT !.wings.lift_coefficient_curve = curve]
    /\ UNCHANGED <<planeVars, envVars, schedVars, tableVars, local_center_of_mass, translation,
                   other_airfoils, build_plane_event, sceneVars>>

\* the Build and the Restart buttons of update_hud_ui
PressBuild ==
    /\ ~panicked
    /\ build_plane_event = <<>>
    /\ build_plane_event' = <<to_spec(plane_spec_model)>>
    /\ UNCHANGED <<planeVars, envVars, schedVars, tableVars, local_center_of_mass, translation,
                   other_airfoils, plane_spec_model, sceneVars>>

\* the consumer of BuildPlaneEvent: the aircraft is despawned with its airfoils,
\* controls and cameras, and a new entity carries the event's PlaneSpec and nothing
\* else
handle_build_plane_event ==
    /\ ~panicked
    /\ build_plane_event # <<>>
    /\ build_plane_event' = <<>>
    /\ kind' = "spec"
    /\ plane_spec' = build_plane_event[1]
    /\ plane_limits' = NoComponent
    /\ airfoils' = <<>>
    /\ rotation' = <<>>
    /\ global_rotation' = <<>>
    /\ control' = NoComponent
    /\ thrust' = NoComponent
    /\ airspeed' = NoComponent
    /\ external_force' = NoComponent
    /\ flight' = NoComponent
    /\ follow' = NoComponent
    /\ linvel' = NoComponent
    /\ block_pos' = NoComponent
    /\ block_changed' = FALSE
    /\ cameras' = <<>>
    /\ follow_added' = FALSE
    /\ UNCHANGED <<pose, dt, key, kphase, axis, aphase, avalue, held, schedVars,
                   tableVars, local_center_of_mass, translation, other_airfoils,
                   plane_spec_model, block_positions, block_entities, buildings, spawned>>

\* the entity has a PlaneSpec that build_plane has not seen yet (Added<PlaneSpec>)
Added == kind = "spec" /\ airfoils = <<>>

\* the bundle without PlaneControl::default() and Thrust(0.0): the fault
\* RebuiltFromSpec detects
InsertBundleKeeping ==
    /\ UNCHANGED <<control, thrust>>
    /\ airspeed' = 0
    /\ external_force' = [force |-> ZERO, torque |-> ZERO]
    /\ flight' = [angle_of_attack |-> 0, lift |-> 0, weight |-> 0, drag |-> 0]
    /\ follow' = "Behind"
    /\ linvel' = ZERO
    /\ pose' = Level
    /\ translation' = SpawnPoint("spec", plane_spec)

\* the bundle build_plane inserts on the entity
InsertBundle ==
    /\ control' = [ailerons |-> 0, elevators |-> 0, rudder |-> 0]
    /\ thrust' = 0
    /\ airspeed' = 0
    /\ external_force' = [force |-> ZERO, torque |-> ZERO]
    /\ flight' = [angle_of_attack |-> 0, lift |-> 0, weight |-> 0, drag |-> 0]
    /\ follow' = "Behind"
    /\ linvel' = ZERO
    /\ pose' = Level
    /\ translation' = SpawnPoint("spec", plane_spec)

\* build_plane: the bundle and the airfoils of the new entity, each with its tables;
\* a curve the Linear builder refuses panics in build_samples, before any command
\* is applied
build_plane ==
    /\ ~panicked
    /\ Added
    /\ IF \E i \in DOMAIN CurvesOf(plane_spec) : LinearBuildFails(CurvesOf(plane_spec)[i])
       THEN /\ panicked' = TRUE
            /\ UNCHANGED <<airfoils, rotation, global_rotation, control, thrust, airspeed,
                           external_force, flight, follow, linvel, pose, translation,
                           block_pos, block_changed, follow_added>>
       ELSE /\ InsertBundle
            /\ block_pos' = <<0, 0>>
            /\ block_changed' = TRUE
            /\ follow_added' = TRUE
            /\ airfoils' = BuildAirfoils(plane_spec)
            /\ rotation' = [i \in DOMAIN BuildAirfoils(plane_spec) |-> 0]
            /\ global_rotation' = [i \in DOMAIN BuildAirfoils(plane_spec) |-> 0]
            /\ UNCHANGED panicked
    /\ UNCHANGED <<kind, plane_limits, plane_spec, dt, key, kphase, axis, aphase, avalue,
                   held, ran, inTick, tick, tableVars, local_center_of_mass, other_airfoils,
                   plane_spec_model, build_plane_event, block_positions, block_entities,
                   buildings, spawned, cameras>>

NextBuild ==
    \/ EditField
    \/ PressBuild
    \/ handle_build_plane_event
    \/ build_plane

SpecBuild == InitBuild /\ [][NextBuild]_vars

(***************************************************************************)
(* Table construction and lookup on their own                              *)
(***************************************************************************)
InitTable ==
    /\ InitPlane("limits", NoComponent)
    /\ InitEnv
    /\ InitSched
    /\ InitWorldIdle
    /\ lift_coefficient_curve \in Curves
    /\ lift_coefficient_samples = <<>>
    /\ angle_of_attack \in QueryAngles
    /\ lift_coefficient = 0
    /\ pcTable = "curve"

\* WingSpec::lift_coefficient_samples / drag_coefficient_samples
BuildTable ==
    /\ pcTable = "curve"
    /\ lift_coefficient_samples' = build_samples(lift_coefficient_curve)
    /\ pcTable' = "built"
    /\ UNCHANGED <<planeVars, envVars, schedVars, worldVars, lift_coefficient_curve,
                   angle_of_attack, lift_coefficient>>

\* the lookup of update_airfoil_forces
SampleTable ==
    /\ pcTable = "built"
    /\ lift_coefficient' = LiftCoefficient(lift_coefficient_samples, angle_of_attack)
    /\ pcTable' = "sampled"
    /\ UNCHANGED <<planeVars, envVars, schedVars, worldVars, lift_coefficient_curve,
                   lift_coefficient_samples, angle_of_attack>>

NextTable == BuildTable \/ SampleTable

SpecTable == InitTable /\ [][NextTable]_vars

(***************************************************************************)
(* Properties                                                              *)
(***************************************************************************)
\* every system of the schedule has run in the current tick
EndOfTick == ran = Systems

\* the thrust limit of the aircraft
ThrustLimit == IF kind = "spec" THEN plane_spec.thrust ELSE plane_limits.thrust

\* C1: at the end of every tick, whatever throttle keys or throttle axis values and
\* tick durations came before, 0 <= thrust <= the aircraft's thrust limit
ThrustWithinLimit == EndOfTick => 0 <= thrust /\ thrust <= ThrustLimit

\* C1, its case: a built aircraft ends a tick of 2/50 s with ThrustUp held and the
\* thrust cut back to a positive limit
ThrustHeldAtLimit ==
    /\ EndOfTick /\ kind = "spec" /\ pressed("ThrustUp") /\ dt = 2
    /\ thrust = plane_spec.thrust /\ thrust > 0

\* the external force one tick's thrust and airfoils make from nothing
FreshForces == AirfoilForces(ThrustUpdate([force |-> ZERO, torque |-> ZERO])).ef

\* C2: at the end of every tick without control input the external force and torque
\* are the sum of that tick's thrust and airfoil contributions alone, nothing of the
\* previous tick's output carried over
ForceAndTorqueOverwritten ==
    (EndOfTick /\ kind = "limits" /\ key = "none" /\ axis = "none")
        => external_force = FreshForces

\* the stage of the tick a system belongs to: control update, airfoil rotations,
\* airspeed, thrust force, airfoil force composition
StageOf(s) ==
    CASE s \in {"plane_handle_keyboard_input", "plane_handle_gamepad_input"}
                \cup InputSystems -> 1
      [] s = "update_airfoils_rotations" -> 2
      [] s = "update_airspeed" -> 3
      [] s = "update_thrust_forces" -> 4
      [] s = "update_airfoil_forces" -> 5

\* the systems whose query matches the aircraft
Matches(s) ==
    /\ s \in InputSystems => kind = "spec"
    /\ s \in {"plane_handle_keyboard_input", "plane_handle_gamepad_input",
              "update_airfoil_forces"} => kind = "limits"

\* C3: within a tick the stages run in order control update, airfoil rotations,
\* airspeed, thrust force, force composition: no system of a later stage has run
\* while a system of an earlier stage that acts on the aircraft has not
StagesInOrder ==
    \A s \in ran, t \in Systems \ ran :
        Matches(s) /\ Matches(t) => StageOf(s) <= StageOf(t)

\* what one airfoil adds to a zero external force
AloneStep(i) ==
    AirfoilStep([ef |-> [force |-> ZERO, torque |-> ZERO], lift |-> 0, drag |-> 0],
                airfoils[i], global_rotation[i])

\* C4: when the linear velocity is (0,0,0), after force composition the lift and the
\* drag are 0, every airfoil in every attitude adds a zero force, and the external
\* force is the thrust force alone
ZeroVelocityThrustAlone ==
    ("update_airfoil_forces" \in ran /\ linvel = ZERO) =>
        /\ flight.lift = 0 /\ flight.drag = 0
        /\ kind = "limits" =>
              /\ \A i \in DOMAIN airfoils :
                    /\ AloneStep(i).ef.force = ZERO
                    /\ AloneStep(i).lift = 0 /\ AloneStep(i).drag = 0
              /\ external_force.force = ThrustForce

\* C4, its case: force composition has run on an aircraft at rest, nose up, with the
\* engine pushing
AtRestUnderThrust ==
    /\ "update_airfoil_forces" \in ran /\ kind = "limits" /\ linvel = ZERO
    /\ pose = NoseUp /\ thrust > 0
    /\ external_force.force = ThrustForce /\ ThrustForce # ZERO

\* C5: for every spec the build window produces, a zero or negative thrust limit or
\* control limit included, no per-tick operation panics
NoPanic == ~panicked

\* the control limits of the aircraft: the owning wing specs' max_control_angle; the
\* 45 degrees of plane.rs for an aircraft without wing specs
MaxControlAngle ==
    IF kind = "spec"
    THEN [ailerons |-> plane_spec.wings.max_control_angle,
          elevators |-> plane_spec.tail.horizontal.max_control_angle,
          rudder |-> plane_spec.tail.vertical.max_control_angle]
    ELSE [ailerons |-> 450, elevators |-> 450, rudder |-> 450]

\* C6: at the end of every tick each of ailerons, elevators and rudder lies within
\* [-max, +max] of its surface's control limit
ControlsWithinLimits ==
    EndOfTick =>
        \A c \in {"ailerons", "elevators", "rudder"} :
            -MaxControlAngle[c] <= control[c] /\ control[c] <= MaxControlAngle[c]

\* a table has been built from the curve
Built == pcTable \in {"built", "sampled"}

\* C7: every table built from a curve has exactly 180 samples, for any number and
\* spacing of control points
TableHas180Samples == Built => Len(lift_coefficient_samples) = 180

\* C7, its case: a table built from three control points that end at 45 degrees
EditedTableBuilt ==
    /\ pcTable = "built" /\ lift_coefficient_curve = EditedLift
    /\ Len(lift_coefficient_curve) = 3
    /\ Len(lift_coefficient_samples) = 180

\* C8: the lookup at -90 degrees is table[0], at 89.9 degrees table[179], and at 200
\* degrees what it is at 90 degrees
LookupAtBoundaries ==
    pcTable = "sampled" =>
        /\ angle_of_attack = Angle(-900) => lift_coefficient = lift_coefficient_samples[1]
        /\ angle_of_attack = Angle(899) => lift_coefficient = lift_coefficient_samples[180]
        /\ angle_of_attack = Angle(2000)
              => lift_coefficient = LiftCoefficient(lift_coefficient_samples, Angle(900))

\* C8, its case: the tail curve of setup_plane looked up at 89.9 degrees gives its
\* last sample, 0.25
LastSampleLookedUp ==
    /\ pcTable = "sampled" /\ lift_coefficient_curve = TailWingLift
    /\ angle_of_attack = Angle(899)
    /\ lift_coefficient = lift_coefficient_samples[180] /\ lift_coefficient = 250

\* C9: for an angle of attack outside [-90, 90) degrees the lookup returns the
\* nearest boundary sample, table[0] below -90 degrees and table[179] from 90
\* degrees on, and so always a table entry
OutOfDomainNearestSample ==
    (pcTable = "sampled" /\ ~angle_of_attack.nan) =>
        /\ angle_of_attack.dd < -900 => lift_coefficient = lift_coefficient_samples[1]
        /\ angle_of_attack.dd >= 900 => lift_coefficient = lift_coefficient_samples[180]
        /\ \E i \in DOMAIN lift_coefficient_samples :
              lift_coefficient = lift_coefficient_samples[i]

\* C10: the samples of a table built over [-90, 90] degrees are the interpolant at
\* the integer degrees -90 + i; for the default wing curve the sample looked up at 0
\* degrees is 0.35 and the one at 10 degrees 1.4
SamplesAtIntegerDegrees ==
    (Built /\ Knots(lift_coefficient_curve)[1] = -900
           /\ Knots(lift_coefficient_curve)[Len(lift_coefficient_curve)] = 900) =>
        /\ \A i \in 0..179 :
              lift_coefficient_samples[i + 1]
                  = Interpolant(lift_coefficient_curve, -900 + 10 * i)
        /\ lift_coefficient_curve = DefaultWingLift =>
              /\ LiftCoefficient(lift_coefficient_samples, Angle(0)) = 350
              /\ LiftCoefficient(lift_coefficient_samples, Angle(100)) = 1400

\* a curve the spec calls malformed: fewer than two control points, angles that do
\* not ascend, or angles that do not cover [-90, 90] degrees
Malformed(curve) ==
    \/ Len(curve) < 2
    \/ \E i \in 1..(Len(curve) - 1) : curve[i][2] >= curve[i + 1][2]
    \/ curve[1][2] > -900
    \/ curve[Len(curve)][2] < 900

\* C11: a spec with a malformed curve never becomes an aircraft with airfoils: its
\* build fails before any table is produced
MalformedCurveNeverBuilt ==
    (kind = "spec" /\ \E i \in DOMAIN CurvesOf(plane_spec) : Malformed(CurvesOf(plane_spec)[i]))
        => airfoils = <<>>

\* every text field of the build window holds a number
AllValid(model) ==
    /\ model.thrust.valid
    /\ model.wings.max_control_angle.valid
    /\ \A i \in DOMAIN model.wings.lift_coefficient_curve :
          /\ model.wings.lift_coefficient_curve[i][1].valid
          /\ model.wings.lift_coefficient_curve[i][2].valid

\* C12: a build event is only ever sent from a build window whose fields all hold
\* valid numbers: no event carries a spec with a substitute for an invalid field
BuildEventFromValidFields == build_plane_event # <<>> => AllValid(plane_spec_model)

\* C13: after update_airspeed, in every orientation and for every velocity, the
\* airspeed is the component of the velocity along the aircraft's forward axis
AirspeedAlongNose ==
    "update_airspeed" \in ran => airspeed * 1000 = Dot(linvel, pose.forward)

\* the angle of attack of airfoil i, as update_airfoil_forces computes it
AirfoilAngleOfAttack(i) ==
    angle_of_attack_signed(AirfoilForward(pose, global_rotation[i]), linvel)

\* the lift-coefficient modifier of airfoil i: the Airfoil of plane.rs carries none
LiftCoefficientModifier(i) == 0

\* (sampled lift coefficient + modifier) * dynamic pressure * area for airfoil i
LiftOf(i) ==
    AeroForce(LiftCoefficient(airfoils[i].lift_coefficient_samples, AirfoilAngleOfAttack(i))
                  + LiftCoefficientModifier(i),
              DynamicPressure(airspeed), airfoils[i].area)

\* the drag force airfoil i adds, and the rest of its force: the lift applied
DragApplied(i) == VScale(VNeg(NormalizeOrZero(linvel)), AloneStep(i).drag, 1000)

LiftApplied(i) == VSub(AloneStep(i).ef.force, DragApplied(i))

\* C14: for every airfoil, main wings, horizontal tail surfaces and vertical tail,
\* the lift force applied in force composition is the airfoil's up axis times
\* (sampled coefficient + modifier) * dynamic pressure * area, with no other factor
LiftAppliedUnscaled ==
    ("update_airfoil_forces" \in ran /\ kind = "limits") =>
        \A i \in DOMAIN airfoils :
            LiftApplied(i) = VScale(AirfoilUp(pose, global_rotation[i]), LiftOf(i), 1000)

\* the drag a drag table gives airfoil i: the table's sample at the index of the
\* airfoil's angle of attack, times dynamic pressure, times area
DragOf(i) ==
    AeroForce(LiftCoefficient(airfoils[i].drag_coefficient_samples, AirfoilAngleOfAttack(i)),
              DynamicPressure(airspeed), airfoils[i].area)

\* C15: for every airfoil, the drag applied in force composition is the coefficient
\* sampled from that airfoil's own drag table at the index of its angle of attack,
\* times dynamic pressure, times area, along the negated normalized velocity
DragFromOwnTable ==
    "update_airfoil_forces" \in ran =>
        \A i \in DOMAIN airfoils :
            /\ "drag_coefficient_samples" \in DOMAIN airfoils[i]
            /\ DragApplied(i) = VScale(VNeg(NormalizeOrZero(linvel)), DragOf(i), 1000)

\* the centre of mass update_airfoil_forces takes torques about
CentreOfMass == VAdd(translation, Rotate(pose, local_center_of_mass))

\* the point update_airfoil_forces applies airfoil i's lift at
ApplicationPoint(i) ==
    LET global == VAdd(translation, Rotate(pose, airfoils[i].translation))
    IN  IF airfoils[i].position = "Wings"
        THEN VAdd(global, VScale(pose.forward, plane_limits.wing_offset_z, 1000))
        ELSE global

\* the sum of (P - C) x F over the airfoils from i on, F the lift applied
RECURSIVE TorqueSum(_)
TorqueSum(i) ==
    IF i > Len(airfoils) THEN ZERO
    ELSE VAdd(Cross(VSub(ApplicationPoint(i), CentreOfMass), LiftApplied(i)),
              TorqueSum(i + 1))

\* C16: a force F applied at point P with centre of mass C adds F to the force and
\* (P - C) x F to the torque; the accumulation is linear: the airfoils' torques add
\* up, and a contribution repeated at the same point gives 2F and (P - C) x 2F
ContributionAtPoint ==
    ("update_airfoil_forces" \in ran /\ kind = "limits" /\ Single) =>
        /\ external_force.torque = TorqueSum(1)
        /\ \A i \in DOMAIN airfoils :
              LET F == LiftApplied(i)
                  arm == VSub(ApplicationPoint(i), CentreOfMass)
                  twice == AirfoilStep(AloneStep(i), airfoils[i], global_rotation[i]).ef
              IN  /\ AloneStep(i).ef.torque = Cross(arm, F)
                  /\ twice.force = VScale(AloneStep(i).ef.force, 2, 1)
                  /\ twice.torque = Cross(arm, VScale(F, 2, 1))

\* C16, its case: force composition has run on an aircraft away from the world
\* origin, a horizontal tail surface lifts, and the aircraft is left with a torque
TailTorqueAboutCentre ==
    /\ "update_airfoil_forces" \in ran /\ kind = "limits" /\ Single
    /\ CentreOfMass # ZERO
    /\ \E i \in DOMAIN airfoils :
          /\ airfoils[i].position = "HorizontalTailLeft"
          /\ LiftApplied(i) # ZERO
          /\ AloneStep(i).ef.torque # ZERO
    /\ external_force.torque # ZERO

\* C17: the thrust force is applied at the point half the fuselage length forward of
\* the aircraft's origin: once the thrust stage has run on an aircraft that entered
\* the tick free of force and torque, the aircraft carries the thrust force and its
\* torque (P - C) x F about the centre of mass
ThrustAppliedAtNose ==
    ("update_thrust_forces" \in ran /\ "update_airfoil_forces" \notin ran) =>
        LET length == IF kind = "spec" THEN plane_spec.fuselage.size[3]
                      ELSE plane_limits.fuselage[3]
            P == VAdd(translation, VScale(pose.forward, length \div 2, 1000))
        IN  /\ thrust > 0 => external_force.force # ZERO
            /\ external_force.torque = Cross(VSub(P, CentreOfMass), external_force.force)

\* the external force one tick's thrust and the aircraft's own airfoils make
OwnForces ==
    AirfoilLoop([ef |-> ThrustUpdate([force |-> ZERO, torque |-> ZERO]),
                 lift |-> 0, drag |-> 0], 1).ef

\* C18: with a second aircraft in the world, force composition gives the aircraft
\* the force and torque of its thrust and its own airfoils alone, and a held ThrustUp
\* key still moves its thrust off the value the tick began with
OwnAirfoilsOnly ==
    (kind = "limits" /\ ~Single) =>
        /\ "update_airfoil_forces" \in ran => external_force = OwnForces
        /\ ("plane_handle_keyboard_input" \in ran /\ pressed("ThrustUp"))
              => thrust \notin {0, 100}

\* C19: at the end of a tick with a non-zero aileron value and a non-zero airspeed,
\* the left and the right wing carry lift-coefficient modifiers of equal magnitude
\* and opposite sign, and the aircraft is left with a torque about its nose axis
AileronsRoll ==
    (EndOfTick /\ control.ailerons # 0 /\ airspeed # 0) =>
        /\ \A i, j \in DOMAIN airfoils :
              (airfoils[i].position = "WingLeft" /\ airfoils[j].position = "WingRight")
                 => /\ LiftCoefficientModifier(i) = -LiftCoefficientModifier(j)
                    /\ LiftCoefficientModifier(i) # 0
        /\ Dot(external_force.torque, pose.forward) # 0

\* C20: at the end of every tick the five flight-state outputs are that tick's
\* values: the main wing's angle of attack, the airspeed, the wing's lift and drag,
\* and a weight, non-zero for an aircraft with mass
FlightStateRecomputed ==
    (EndOfTick /\ kind = "limits") =>
        \A i \in DOMAIN airfoils :
            airfoils[i].position = "Wings" =>
                /\ ~AirfoilAngleOfAttack(i).nan
                      => flight.angle_of_attack = AirfoilAngleOfAttack(i).dd
                /\ airspeed = Airspeed
                /\ flight.lift = AloneStep(i).lift
                /\ flight.drag = AloneStep(i).drag
                /\ flight.weight # 0

\* the wing spec an airfoil position is built from
SpecOfPosition(plane, position) ==
    CASE position \in {"WingLeft", "WingRight"} -> plane.wings
      [] position = "VerticalTail" -> plane.tail.vertical
      [] position \in {"TailWingLeft", "TailWingRight"} -> plane.tail.horizontal

DefaultWingLiftAt60 ==
    (pcTable = "sampled" /\ lift_coefficient_curve = DefaultWingLift
        /\ angle_of_attack = Angle(0)) =>
        Abs(AeroForce(lift_coefficient, DynamicPressure(60), 825) - 63669) <= 10

\* C23: for every angle of attack a in [-90, 90) degrees the lookup reads the sample
\* at index round(a) + 90, the nearest integer degree (held to the last index 179):
\* index 91 for 0.6 degrees, index 89 for -0.6 degrees
LookupRoundsToNearest ==
    (pcTable = "sampled" /\ ~angle_of_attack.nan
        /\ -900 <= angle_of_attack.dd /\ angle_of_attack.dd < 900) =>
        LET nearest == RoundDiv(angle_of_attack.dd, 10) + 90
            index == IF nearest > 179 THEN 179 ELSE nearest
        IN  /\ LiftCoefficientIndex(angle_of_attack) = index
            /\ lift_coefficient = lift_coefficient_samples[index + 1]

\* the control an airfoil position bears
ControlOf(position) ==
    CASE position \in {"HorizontalTailLeft", "HorizontalTailRight",
                       "TailWingLeft", "TailWingRight"} -> "elevators"
      [] position \in {"Wings", "WingLeft", "WingRight"} -> "ailerons"
      [] position = "VerticalTail" -> "rudder"

\* C24: the airfoil-rotation update of every tick sets each airfoil's rotation to the
\* current angle of its control: elevators for the horizontal tail surfaces, rudder
\* for the vertical tail, ailerons (to either side) for the wing surfaces
RotationsFollowControls ==
    [][("update_airfoils_rotations" \notin ran /\ "update_airfoils_rotations" \in ran') =>
          \A i \in DOMAIN airfoils :
              LET c == ControlOf(airfoils[i].position)
              IN  IF c = "ailerons" THEN Abs(rotation'[i]) = Abs(control[c])
                  ELSE rotation'[i] = control[c]]_vars

\* every Airfoil of the world with its rotation, in the order airfoil_query yields
\* them here: the aircraft's own, then the others
WorldAirfoils ==
    [i \in DOMAIN airfoils |-> [airfoil |-> airfoils[i], rot |-> global_rotation[i]]]
        \o [i \in DOMAIN other_airfoils |->
               [airfoil |-> other_airfoils[i], rot |-> other_airfoils[i].rotation]]

\* the point update_airfoil_forces applies an airfoil's lift at
PointOf(airfoil) ==
    LET global == VAdd(translation, Rotate(pose, airfoil.translation))
    IN  IF airfoil.position = "Wings"
        THEN VAdd(global, VScale(pose.forward, plane_limits.wing_offset_z, 1000))
        ELSE global

\* the sum of (P - C) x (lift + drag) over the airfoils of the world from i on
RECURSIVE WholeForceTorque(_)
WholeForceTorque(i) ==
    IF i > Len(WorldAirfoils) THEN ZERO
    ELSE LET a == WorldAirfoils[i]
             added == AirfoilStep([ef |-> [force |-> ZERO, torque |-> ZERO],
                                   lift |-> 0, drag |-> 0], a.airfoil, a.rot).ef.force
         IN  VAdd(Cross(VSub(PointOf(a.airfoil), CentreOfMass), added),
                  WholeForceTorque(i + 1))

Start == [control |-> [ailerons |-> 5, elevators |-> -50, rudder |-> 10], thrust |-> 10]

\* what the keyboard does in the tick: nothing, a press edge, a held throttle key
KeyEvents ==
    {<<"none", "released">>, <<"RollLeft", "just_pressed">>, <<"PitchUp", "just_pressed">>,
     <<"PitchDown", "just_pressed">>, <<"YawRight", "just_pressed">>,
     <<"PitchUp", "pressed">>, <<"PitchUp", "just_released">>,
     <<"ThrustUp", "pressed">>, <<"ThrustDown", "pressed">>}

\* what the gamepad does in the tick: nothing, or one axis pressed to a stick value
\* or released
AxisEvents ==
    {<<"none", "released", 0>>}
        \cup {<<a, "just_pressed", v>> : a \in AxisActions, v \in StickValues}
        \cup {<<a, "just_released", 0>> : a \in AxisActions}

InitInput ==
    /\ kind = "spec"
    /\ plane_limits = NoComponent
    /\ plane_spec = PlaneSpecOf(10, 25, 50, 50)
    /\ airfoils = BuildAirfoils(plane_spec)
    /\ control = Start.control
    /\ thrust = Start.thrust
    /\ airspeed = 0
    /\ external_force = [force |-> <<0, 0, -Start.thrust>>, torque |-> ZERO]
    /\ flight = [angle_of_attack |-> 0, lift |-> 0, weight |-> 0, drag |-> 0]
    /\ rotation = [i \in DOMAIN airfoils |-> 0]
    /\ global_rotation = rotation
    /\ follow = "Behind"
    /\ pose = Level /\ linvel = ZERO /\ dt = 1
    /\ \E k \in KeyEvents : key = k[1] /\ kphase = k[2]
    /\ \E a \in AxisEvents : axis = a[1] /\ aphase = a[2] /\ avalue = a[3]
    /\ held \in {[axis |-> "none", value |-> 0]}
                  \cup IF axis \in {"none", "Roll"} THEN {}
                       ELSE {[axis |-> "Roll", value |-> 10]}
    /\ ran = {} /\ inTick = TRUE /\ tick = 0 /\ panicked = FALSE
    /\ InitTableIdle
    /\ local_center_of_mass = ZERO
    /\ translation = SpawnPoint(kind, plane_spec)
    /\ other_airfoils = <<>>
    /\ plane_spec_model = NoComponent
    /\ build_plane_event = <<>>
    /\ FlownScene

SpecInput == InitInput /\ [][NextFlight]_vars

\* C26: once the keyboard handler and the gamepad handler have both run in a tick,
\* the control angles and the thrust are what either order of the two makes of the
\* values the tick began with
HandlerOrderIrrelevant ==
    ({"input_handle_keyboard_input", "input_handle_gamepad_input"} \subseteq ran) =>
        /\ control = GamepadControl(KeyboardControl(Start.control, plane_spec), plane_spec)
        /\ control = KeyboardControl(GamepadControl(Start.control, plane_spec), plane_spec)
        /\ thrust = GamepadThrust(KeyboardThrust(Start.thrust, plane_spec), plane_spec)
        /\ thrust = KeyboardThrust(GamepadThrust(Start.thrust, plane_spec), plane_spec)

\* the control angle a roll, yaw or pitch key moves, "none" for any other key
AngleOfKey ==
    CASE key \in {"RollLeft", "RollRight"} -> "ailerons"
      [] key \in {"YawLeft", "YawRight"} -> "rudder"
      [] key \in {"PitchUp", "PitchDown"} -> "elevators"
      [] OTHER -> "none"

\* C28: the keyboard handler changes a control angle only on the press edge of a
\* roll, yaw or pitch key: that key's angle moves one step of max/5 in the key's
\* direction, held within -max and max, the other two angles stay; with a key held
\* or released, or no key, all three angles stay
KeyboardStepsOnPress ==
    [][("input_handle_keyboard_input" \notin ran /\ "input_handle_keyboard_input" \in ran'
           /\ kind = "spec" /\ Single) =>
          IF AngleOfKey # "none" /\ kphase = "just_pressed"
          THEN LET max == MaxControlAngle[AngleOfKey]
                   step == IF key \in {"RollRight", "YawRight", "PitchUp"}
                           THEN max \div 5 ELSE -(max \div 5)
                   moved == control[AngleOfKey] + step
               IN  /\ control'[AngleOfKey] =
                         IF moved > max THEN max ELSE IF moved < -max THEN -max ELSE moved
                   /\ \A c \in {"ailerons", "elevators", "rudder"} \ {AngleOfKey} :
                         control'[c] = control[c]
          ELSE control' = control]_vars

\* C28, its case: the keyboard handler has run alone on PitchDown pressed with the
\* elevators already at their lower limit: they are still there, ailerons and rudder
\* untouched
PitchDownHeldAtLimit ==
    /\ "input_handle_keyboard_input" \in ran /\ "input_handle_gamepad_input" \notin ran
    /\ kind = "spec" /\ key = "PitchDown" /\ kphase = "just_pressed"
    /\ control.elevators = -MaxControlAngle["elevators"]
    /\ control.elevators = Start.control.elevators
    /\ control.ailerons = Start.control.ailerons /\ control.rudder = Start.control.rudder

\* the gamepad axis that sets each control angle
AxisOf == [elevators |-> "Pitch", ailerons |-> "Roll", rudder |-> "Rudder"]

\* C29: when the gamepad handler runs in a tick where one of the Pitch, Roll and
\* Rudder axes is released, every control angle becomes zero, whatever the keyboard
\* had set, except the angle of an axis still pressed, which is set from that axis;
\* the reset leaves the thrust as it was
ReleaseResetsControls ==
    [][("input_handle_gamepad_input" \notin ran /\ "input_handle_gamepad_input" \in ran'
           /\ kind = "spec" /\ Single
           /\ axis \in {"Pitch", "Roll", "Rudder"} /\ aphase = "just_released") =>
          /\ \A c \in {"ailerons", "elevators", "rudder"} :
                control'[c] = IF held.axis = AxisOf[c]
                              THEN scaled_value(held.value, MaxControlAngle[c])
                              ELSE 0
          /\ held.axis # "Throttle" => thrust' = thrust]_vars

\* C29, its case: the Pitch axis was released with the Roll stick still fully over and
\* no key in use: elevators and rudder are zero, the ailerons are at their limit, the
\* thrust is the one the tick began with
PitchReleasedRollHeld ==
    /\ "input_handle_gamepad_input" \in ran /\ kind = "spec" /\ key = "none"
    /\ axis = "Pitch" /\ aphase = "just_released" /\ held.axis = "Roll"
    /\ Start.control.elevators # 0 /\ Start.control.rudder # 0
    /\ control = [ailerons |-> MaxControlAngle["ailerons"], elevators |-> 0, rudder |-> 0]
    /\ thrust = Start.thrust

(***************************************************************************)
(* The world in flight: the schedule run again and again over the block,   *)
(* the buildings and the camera                                            *)
(***************************************************************************)
\* the engine between two runs of the schedule: the rigid body has moved the
\* aircraft, the input manager has updated the key's state
FlyOn ==
    /\ inTick /\ ~panicked /\ tick < MaxTicks
    /\ {"input_handle_gamepad_input", "attach_to_follow", "update_block_positions",
        "generate_infinite_buildings"} \subseteq ran
    /\ translation' \in WorldPositions
    /\ \E k \in NextPhases(key, kphase, {"FollowAbove", "FollowSide"}) :
          key' = k[1] /\ kphase' = k[2]
    /\ ran' = {}
    /\ tick' = tick + 1
    /\ UNCHANGED <<planeVars, pose, linvel, dt, axis, aphase, avalue, held, inTick,
                   panicked, tableVars, local_center_of_mass, other_airfoils,
                   plane_spec_model, build_plane_event, sceneVars>>

\* world.rs update_block_positions, its command applied; the entity has a BlockPos
\* once it is built (it has its airfoils)
update_block_positions ==
    /\ Ready("update_block_positions")
    /\ Ran("update_block_positions")
    /\ IF airfoils # <<>> /\ BlockOf(translation) # block_pos
       THEN block_pos' = BlockOf(translation) /\ block_changed' = TRUE
       ELSE UNCHANGED <<block_pos, block_changed>>
    /\ UNCHANGED <<planeVars, envVars, panicked, tableVars, local_center_of_mass,
                   translation, other_airfoils, plane_spec_model, build_plane_event,
                   block_positions, block_entities, buildings, spawned, cameras,
                   follow_added>>

\* world.rs generate_infinite_buildings, its commands applied
generate_infinite_buildings ==
    /\ Ready("generate_infinite_buildings")
    /\ Ran("generate_infinite_buildings")
    /\ IF ~block_changed \/ airfoils = <<>> \/ ~Single
       THEN UNCHANGED <<block_changed, block_positions, block_entities, buildings,
                        spawned>>
       ELSE LET px == block_pos[1]
                pz == block_pos[2]
                side == 2 * ACTIVE_BLOCK_DISTANCE
                entity(b) == building_entity(b, px, pz, spawned)
            IN  \E active_block_positions \in {ActiveBlocks(px, pz)} :
                \E misses \in {active_block_positions \ block_positions} :
                \E old_positions \in {block_positions \ active_block_positions} :
                \E inserted \in {[b \in DOMAIN block_entities \cup misses |->
                                     IF b \in misses THEN entity(b)
                                     ELSE block_entities[b]]} :
                \E despawned \in {{inserted[b] : b \in old_positions \cap DOMAIN inserted}} :
                   /\ block_changed' = FALSE
                   /\ spawned' = spawned + side * side
                   /\ buildings' =
                         {e \in buildings
                                   \cup {[entity |-> entity(b), block |-> b] :
                                            b \in misses} :
                             e.entity \notin despawned}
                   /\ block_entities' =
                         [b \in DOMAIN inserted \ old_positions |-> inserted[b]]
                   /\ block_positions' = (block_positions \ old_positions) \cup misses
    /\ UNCHANGED <<planeVars, envVars, panicked, tableVars, local_center_of_mass,
                   translation, other_airfoils, plane_spec_model, build_plane_event,
                   block_pos, cameras, follow_added>>

\* camera.rs attach_to_follow: camera_tx.translation for each FollowKind, in cm
camera_tx == [Behind |-> <<0, 500, 2000>>, Above |-> <<0, 15000, 0>>, Inside |-> ZERO]

\* camera.rs attach_to_follow, its command applied: a MainCamera spawned as a child
\* of the entity whose Follow has just been added
attach_to_follow ==
    /\ Ready("attach_to_follow")
    /\ Ran("attach_to_follow")
    /\ IF follow_added /\ airfoils # <<>> /\ Single
       THEN cameras' = Append(cameras, camera_tx[follow]) /\ follow_added' = FALSE
       ELSE UNCHANGED <<cameras, follow_added>>
    /\ UNCHANGED <<planeVars, envVars, panicked, tableVars, local_center_of_mass,
                   translation, other_airfoils, plane_spec_model, build_plane_event,
                   block_pos, block_changed, block_positions, block_entities, buildings,
                   spawned>>

\* the aircraft build_plane has just spawned, in its first tick, no input yet
InitWorld ==
    /\ InitPlane("spec", PlaneSpecOf(10, 25, 50, 50))
    /\ InitEnv
    /\ ran = {} /\ inTick = TRUE /\ tick = 0 /\ panicked = FALSE
    /\ InitTableIdle
    /\ InitWorldIdle

NextWorld ==
    \/ FlyOn
    \/ input_handle_gamepad_input
    \/ attach_to_follow
    \/ update_block_positions
    \/ generate_infinite_buildings

SpecWorld == InitWorld /\ [][NextWorld]_vars

\* C27: once building generation has run for the block the aircraft is in, the
\* buildings alive are one to one with the noise-positive blocks of the window
\* [px - 20, px + 20) x [pz - 20, pz + 20): the tracked positions are those blocks,
\* the map has those keys, each block has one building, the map's, and none stands
\* outside
BuildingsMatchWindow ==
    ("generate_infinite_buildings" \in ran /\ ~block_changed /\ airfoils # <<>>) =>
        LET window ==
                {b \in ((block_pos[1] - 20)..(block_pos[1] + 19))
                          \X ((block_pos[2] - 20)..(block_pos[2] + 19)) :
                    perlin_positive(b[1], b[2])}
        IN  /\ block_positions = window
            /\ DOMAIN block_entities = window
            /\ {e.block : e \in buildings} = window
            /\ Cardinality(buildings) = Cardinality(window)
            /\ \A e \in buildings : block_entities[e.block] = e.entity

\* C27, its case: the aircraft has flown from block (0, 0) to block (1, 0) and
\* generation has run again: the building of block (-20, 1) is gone, block (20, 1)
\* has one, block (0, 1) has kept the one it had
FlownIntoNextBlock ==
    /\ "generate_infinite_buildings" \in ran /\ ~block_changed
    /\ block_pos = <<1, 0>> /\ spawned = 2 * 1600
    /\ \A e \in buildings : e.block # <<-20, 1>>
    /\ \E e \in buildings : e.block = <<20, 1>> /\ e.entity > 1600
    /\ \E e \in buildings : e.block = <<0, 1>> /\ e.entity <= 1600

\* C30: after follow-view switches, once the tick after the last switch has run the
\* input handler and attach_to_follow, the aircraft has at most one MainCamera child
\* and that camera sits at the offset of the follow kind selected last
OneCameraAtFollowOffset ==
    ({"input_handle_gamepad_input", "attach_to_follow"} \subseteq ran
        /\ airfoils # <<>> /\ kphase # "just_pressed") =>
        /\ Len(cameras) <= 1
        /\ cameras # <<>> => follow \in DOMAIN camera_tx /\ cameras[1] = camera_tx[follow]

=============================================================================
